---- MODULE Spec2Model ----
(***************************************************************************)
(* The /tts pipeline of app.py: the handler text_to_speech, the background *)
(* worker play_text_to_speech_task, the process-wide tts_audio_queue and   *)
(* play_text_to_speech_semaphore, and the response generator               *)
(* tts_audio_stream_generator.                                             *)
(*                                                                         *)
(* A session is one accepted request: its worker thread and its generator. *)
(* Sessions are numbered in the order the semaphore was acquired.          *)
(*                                                                         *)
(* Queue items are records.  The code sees only whether an item is None    *)
(* (kind = "none") or a chunk; the fields sid and seq say which worker     *)
(* pushed the item and are history, read by the properties only.           *)
(***************************************************************************)
EXTENDS Integers, Sequences, FiniteSets, TLC

\* ---------------------------------------------------------------- bounds
\* Accepted requests in one run, and chunks the engine produces in one run
\* (over all its sessions).
MaxSessions == 2
MaxChunks == 2

Sessions == 1..MaxSessions

\* request.args.get("text", ""): a missing parameter reads as "".
Texts == {"", "hello"}

\* ---------------------------------------------------------------- state
VARIABLES
    engineOK,     \* tts_engine and tts_stream were initialized at startup
    infoOK,       \* tts_engine.get_stream_info() and the wave writer do not raise
    sem,          \* counter of play_text_to_speech_semaphore
    queue,        \* tts_audio_queue
    nsess,        \* number of successful acquires so far
    wpc,          \* per session: position of the handler/worker thread
    nprod,        \* per session: chunks the engine handed to on_audio_chunk
    raised,       \* per session: the worker's except branch was entered
    rpc,          \* per session: position of the generator
    header_sent,  \* per session: the generator's local header_sent
    chunk,        \* per session: the generator's local chunk
    header,       \* per session: the generator's local header
    got,          \* per session: every item the generator popped (history)
    out,          \* per session: everything the generator yielded (history)
    pushed,       \* every item ever put on the queue (history)
    lastReq       \* the last handler decision (history)

vars == <<engineOK, infoOK, sem, queue, nsess, wpc, nprod, raised, rpc, header_sent,
          chunk, header, got, out, pushed, lastReq>>

envVars == <<engineOK, infoOK>>
workerVars == <<wpc, nprod, raised>>
genVars == <<rpc, header_sent, chunk, header, got, out>>

\* ---------------------------------------------------------------- values
NoneItem(s) == [kind |-> "none", sid |-> s, seq |-> 0]
ChunkItem(s, k) == [kind |-> "chunk", sid |-> s, seq |-> k]
WavHeader == [kind |-> "header", sid |-> 0, seq |-> 0]
NoItem == [kind |-> "unset", sid |-> 0, seq |-> 0]

\* `chunk is None`.  (IsNoneNever: a generator without its sentinel check.)
IsNoneNever(item) == FALSE
IsNone(item) == item.kind = "none"

\* ---------------------------------------------------------------- helpers

\* Chunks handed to on_audio_chunk so far, over all sessions.
TotalChunks == Len(SelectSeq(pushed, LAMBDA item : item.kind = "chunk"))

\* threading.Semaphore(1).  (SemaphoreInitTwo: a gate with two slots.)
SemaphoreInitTwo == 1 + 1
SemaphoreInit == 1

\* semaphore.acquire(blocking=False): succeeds iff the counter is positive.
\* (TryAcquireAlways: an acquire that never reports busy.)
TryAcquireAlways(c) == TRUE
TryAcquire(c) == c > 0

\* semaphore.release() on an unbounded Semaphore: counter + 1.
SemRelease(c) == c + 1

\* Queue() has maxsize 0: put never blocks.  (CanPutBounded: Queue(1).)
CanPutBounded(q) == Len(q) < 1
CanPut(q) == TRUE

\* `if not text`.  (TextMissingNever: the handler without its text check.)
TextMissingNever(text) == FALSE
TextMissing(text) == text = ""

\* `if not tts_engine or not tts_stream`; ok: both were initialized.
\* (EngineUnavailableNever: the handler without its engine check.)
EngineUnavailableNever(ok) == FALSE
EngineUnavailable(ok) == ~ok

\* create_wave_header_for_engine(engine); ok: the try block did not raise.
\* (CreateWaveHeaderIgnoresFailure: an except branch that still returns a
\* header.)
CreateWaveHeaderIgnoresFailure(engine, ok) == <<WavHeader>>
CreateWaveHeader(engine, ok) ==
    IF ~engine THEN <<>>
    ELSE IF ok THEN <<WavHeader>>
    ELSE <<>>

\* Where the worker goes after the except handler: the finally clause.
\* (AfterExceptSkipsFinally: a release placed in the try block only.)
AfterExceptSkipsFinally == "finished"
AfterExcept == "finally"

\* What the try block puts on the queue once stream.play() has returned
\* (line 226), and what the except handler puts (line 232).
\* (OnReturnPutsNothing: the try block without its put(None).)
OnReturnPutsNothing(s) == <<>>
OnReturnPuts(s) == <<NoneItem(s)>>
\* (OnExceptPutsNothing: an except handler that only logs.)
OnExceptPutsNothing(s) == <<>>
OnExceptPuts(s) == <<NoneItem(s)>>

\* ---------------------------------------------------------------- Init
Init ==
    /\ engineOK \in BOOLEAN
    /\ infoOK \in BOOLEAN
    /\ sem = SemaphoreInit
    /\ queue = <<>>
    /\ nsess = 0
    /\ wpc = [s \in Sessions |-> "none"]
    /\ nprod = [s \in Sessions |-> 0]
    /\ raised = [s \in Sessions |-> FALSE]
    /\ rpc = [s \in Sessions |-> "none"]
    /\ header_sent = [s \in Sessions |-> FALSE]
    /\ chunk = [s \in Sessions |-> NoItem]
    /\ header = [s \in Sessions |-> <<>>]
    /\ got = [s \in Sessions |-> <<>>]
    /\ out = [s \in Sessions |-> <<>>]
    /\ pushed = <<>>
    /\ lastReq = [text |-> "", status |-> "none"]

\* ---------------------------------------------------------------- handler

\* What the handler decided for the request with this text.  lastReq is
\* history: with log = FALSE the step is the same and leaves it unrecorded.
Decide(text, status, log) ==
    lastReq' = IF log THEN [text |-> text, status |-> status] ELSE lastReq

\* text_to_speech.  started: threading.Thread(...).start() did not raise
\* (RuntimeError: can't start new thread).  When it raises, the handler
\* fails with the semaphore still acquired; otherwise the handler creates
\* the generator and returns the streaming Response, whose first next()
\* runs to queue.get().
TTSRequest(text, started, log) ==
    IF TextMissing(text) THEN
        /\ Decide(text, "400", log)
        /\ UNCHANGED <<envVars, sem, queue, nsess, workerVars, genVars, pushed>>
    ELSE IF EngineUnavailable(engineOK) THEN
        /\ Decide(text, "503_unavailable", log)
        /\ UNCHANGED <<envVars, sem, queue, nsess, workerVars, genVars, pushed>>
    ELSE IF TryAcquire(sem) THEN
        /\ nsess < MaxSessions
        /\ sem' = sem - 1
        /\ nsess' = nsess + 1
        /\ IF started
           THEN /\ wpc' = [wpc EXCEPT ![nsess + 1] = "start"]
                /\ rpc' = [rpc EXCEPT ![nsess + 1] = "get"]
                /\ Decide(text, "200", log)
           ELSE /\ wpc' = [wpc EXCEPT ![nsess + 1] = "spawn_failed"]
                /\ Decide(text, "500", log)
                /\ UNCHANGED rpc
        /\ UNCHANGED <<envVars, queue, nprod, raised, header_sent, chunk,
                       header, got, out, pushed>>
    ELSE
        /\ Decide(text, "503_busy", log)
        /\ UNCHANGED <<envVars, sem, queue, nsess, workerVars, genVars, pushed>>

\* ---------------------------------------------------------------- worker

\* Lines 191-214: enter the try block; `if not stream: raise ValueError`;
\* stream.feed(text) returns.
FeedReturns(s) ==
    /\ wpc[s] = "start"
    /\ IF ~engineOK
       THEN /\ wpc' = [wpc EXCEPT ![s] = "except"]
            /\ raised' = [raised EXCEPT ![s] = TRUE]
       ELSE /\ wpc' = [wpc EXCEPT ![s] = "play"]
            /\ UNCHANGED raised
    /\ UNCHANGED <<envVars, sem, queue, nsess, nprod, genVars, pushed, lastReq>>

\* stream.feed(text) or stream.play(...) raises: on to the except handler.
EngineRaises(s) ==
    /\ wpc[s] \in {"start", "play"}
    /\ wpc' = [wpc EXCEPT ![s] = "except"]
    /\ raised' = [raised EXCEPT ![s] = TRUE]
    /\ UNCHANGED <<envVars, sem, queue, nsess, nprod, genVars, pushed, lastReq>>

\* stream.play(...) never returns.
EngineStalls(s) ==
    /\ wpc[s] = "play"
    /\ wpc' = [wpc EXCEPT ![s] = "stalled"]
    /\ UNCHANGED <<envVars, sem, queue, nsess, nprod, raised, genVars, pushed, lastReq>>

\* The engine calls on_audio_chunk(chunk): audio_queue.put(chunk).
OnAudioChunk(s) ==
    /\ wpc[s] = "play"
    /\ TotalChunks < MaxChunks
    /\ CanPut(queue)
    /\ nprod' = [nprod EXCEPT ![s] = @ + 1]
    /\ queue' = Append(queue, ChunkItem(s, nprod[s] + 1))
    /\ pushed' = Append(pushed, ChunkItem(s, nprod[s] + 1))
    /\ UNCHANGED <<envVars, sem, nsess, wpc, raised, genVars, lastReq>>

\* (PlayReturnsReleasesFirst: a release placed right after stream.play(),
\* before the put(None).)
PlayReturnsReleasesFirst(s) ==
    /\ wpc[s] = "play"
    /\ sem' = SemRelease(sem)
    /\ wpc' = [wpc EXCEPT ![s] = "complete"]
    /\ UNCHANGED <<envVars, queue, nsess, nprod, raised, genVars, pushed, lastReq>>

\* stream.play(...) returns: on to line 226.
PlayReturns(s) ==
    /\ wpc[s] = "play"
    /\ wpc' = [wpc EXCEPT ![s] = "complete"]
    /\ UNCHANGED <<envVars, sem, queue, nsess, nprod, raised, genVars, pushed, lastReq>>

\* audio_queue.put(None) at the end of the try block (line 226).
PutNone(s) ==
    /\ wpc[s] = "complete"
    /\ CanPut(queue)
    /\ queue' = queue \o OnReturnPuts(s)
    /\ pushed' = pushed \o OnReturnPuts(s)
    /\ wpc' = [wpc EXCEPT ![s] = "finally"]
    /\ UNCHANGED <<envVars, sem, nsess, nprod, raised, genVars, lastReq>>

\* The except handler: log, audio_queue.put(None) (line 232).
ExceptPutNone(s) ==
    /\ wpc[s] = "except"
    /\ CanPut(queue)
    /\ queue' = queue \o OnExceptPuts(s)
    /\ pushed' = pushed \o OnExceptPuts(s)
    /\ wpc' = [wpc EXCEPT ![s] = AfterExcept]
    /\ UNCHANGED <<envVars, sem, nsess, nprod, raised, genVars, lastReq>>

\* finally: semaphore.release().
Release(s) ==
    /\ wpc[s] = "finally"
    /\ sem' = SemRelease(sem)
    /\ wpc' = [wpc EXCEPT ![s] = "finished"]
    /\ UNCHANGED <<envVars, queue, nsess, nprod, raised, genVars, pushed, lastReq>>

\* ---------------------------------------------------------------- generator

\* chunk = audio_queue.get() and the code up to the next yield or the break.
\* rpc = "yield_chunk": suspended at `yield chunk`, or resumed from it and
\* waiting in queue.get() (the resumption touches nothing but the position).
Get(s) ==
    /\ rpc[s] \in {"get", "yield_chunk"}
    /\ queue # <<>>
    /\ queue' = Tail(queue)
    /\ got' = [got EXCEPT ![s] = Append(@, Head(queue))]
    /\ chunk' = [chunk EXCEPT ![s] = Head(queue)]
    /\ IF IsNone(Head(queue)) THEN
           /\ rpc' = [rpc EXCEPT ![s] = "finished"]
           /\ UNCHANGED <<header_sent, header, out>>
       ELSE IF ~header_sent[s] THEN
           LET h == CreateWaveHeader(engineOK, infoOK) IN
           /\ header' = [header EXCEPT ![s] = h]
           /\ IF h # <<>>
              THEN /\ out' = [out EXCEPT ![s] = @ \o h]
                   /\ rpc' = [rpc EXCEPT ![s] = "yield_header"]
                   /\ UNCHANGED header_sent
              ELSE /\ header_sent' = [header_sent EXCEPT ![s] = TRUE]
                   /\ out' = [out EXCEPT ![s] = Append(@, Head(queue))]
                   /\ rpc' = [rpc EXCEPT ![s] = "yield_chunk"]
       ELSE
           /\ out' = [out EXCEPT ![s] = Append(@, Head(queue))]
           /\ rpc' = [rpc EXCEPT ![s] = "yield_chunk"]
           /\ UNCHANGED <<header_sent, header>>
    /\ UNCHANGED <<envVars, sem, nsess, workerVars, pushed, lastReq>>

\* (ResumeAfterHeaderDropsChunk: a loop that goes back to queue.get() after
\* yielding the header, without yielding the chunk it holds.)
ResumeAfterHeaderDropsChunk(s) ==
    /\ rpc[s] = "yield_header"
    /\ header_sent' = [header_sent EXCEPT ![s] = TRUE]
    /\ rpc' = [rpc EXCEPT ![s] = "yield_chunk"]
    /\ UNCHANGED <<envVars, sem, queue, nsess, workerVars, chunk, header, got,
                   out, pushed, lastReq>>

\* Resumed after `yield header`: header_sent = True; yield chunk.
ResumeAfterHeader(s) ==
    /\ rpc[s] = "yield_header"
    /\ header_sent' = [header_sent EXCEPT ![s] = TRUE]
    /\ out' = [out EXCEPT ![s] = Append(@, chunk[s])]
    /\ rpc' = [rpc EXCEPT ![s] = "yield_chunk"]
    /\ UNCHANGED <<envVars, sem, queue, nsess, workerVars, chunk, header, got,
                   pushed, lastReq>>

\* The client went away: the server closes the generator at a yield.
Disconnect(s) ==
    /\ rpc[s] \in {"yield_header", "yield_chunk"}
    /\ rpc' = [rpc EXCEPT ![s] = "closed"]
    /\ UNCHANGED <<envVars, sem, queue, nsess, workerVars, header_sent, chunk,
                   header, got, out, pushed, lastReq>>

\* ---------------------------------------------------------------- Next
WorkerStep(s) ==
    \/ FeedReturns(s)
    \/ EngineRaises(s)
    \/ EngineStalls(s)
    \/ OnAudioChunk(s)
    \/ PlayReturns(s)
    \/ PutNone(s)
    \/ ExceptPutNone(s)
    \/ Release(s)

Next ==
    \/ \E text \in Texts, started \in BOOLEAN : TTSRequest(text, started, TRUE)
    \/ \E s \in Sessions : WorkerStep(s)
    \/ \E s \in Sessions : Get(s)
    \/ \E s \in Sessions : ResumeAfterHeader(s)
    \/ \E s \in Sessions : Disconnect(s)

Spec == Init /\ [][Next]_vars

\* The same steps with the handler's decisions left unrecorded.
NextUnlogged ==
    \/ \E text \in Texts, started \in BOOLEAN : TTSRequest(text, started, FALSE)
    \/ \E s \in Sessions : WorkerStep(s)
    \/ \E s \in Sessions : Get(s)
    \/ \E s \in Sessions : ResumeAfterHeader(s)
    \/ \E s \in Sessions : Disconnect(s)

\* The worker is a thread of its own: once started it keeps running, and
\* each engine call returns, raises or stalls.  Requests and generators get
\* no fairness: clients may stop sending and stop reading.
FairSpec ==
    /\ Init
    /\ [][NextUnlogged]_vars
    /\ \A s \in Sessions : WF_vars(WorkerStep(s))

\* A generator's steps.
GenStep(s) == Get(s) \/ ResumeAfterHeader(s)

\* As FairSpec, and every client stays connected and keeps reading: a
\* generator that can pop or resume eventually does.  (Disconnect remains
\* possible; the properties checked here name it.)
FairGenSpec ==
    /\ Init
    /\ [][NextUnlogged]_vars
    /\ \A s \in Sessions : WF_vars(WorkerStep(s))
    /\ \A s \in Sessions : WF_vars(GenStep(s))

\* ---------------------------------------------------------------- properties

\* Positions of a worker that exists and has not yet released the semaphore.
WorkerLive == {"start", "play", "stalled", "complete", "except", "finally"}
\* Positions of a worker that is still going to run.
WorkerRunning == {"start", "play", "complete", "except", "finally"}
\* Positions of a worker inside stream.feed / stream.play.
InEngine == {"start", "play", "stalled"}

Markers(s) == Len(SelectSeq(pushed, LAMBDA item : item.kind = "none" /\ item.sid = s))
Headers(s) == Len(SelectSeq(out[s], LAMBDA item : item.kind = "header"))
Produced(s) == [k \in 1..nprod[s] |-> ChunkItem(s, k)]

\* C1: at most one worker exists between a successful acquire and its
\* release, so at most one worker is inside the engine.
C1_MutualExclusion ==
    /\ Cardinality({s \in Sessions : wpc[s] \in WorkerLive}) <= 1
    /\ Cardinality({s \in Sessions : wpc[s] \in InEngine}) <= 1

C1_Witness ==
    /\ wpc[1] = "finished"
    /\ wpc[2] = "play"
    /\ nprod[2] >= 1

\* C2: a request with non-empty text and an initialized engine that finds
\* the semaphore at 0 is answered 503 busy in that one step, and the step
\* changes neither the semaphore nor the queue, starts no session (worker
\* or generator) and moves no worker or generator.
C2_BusyRejection ==
    [][(lastReq' # lastReq /\ lastReq'.text # "" /\ engineOK /\ sem < 1)
        => /\ lastReq'.status = "503_busy"
           /\ UNCHANGED <<sem, queue, nsess, workerVars, genVars, pushed>>]_vars

C2_Witness ==
    /\ lastReq.status = "503_busy"
    /\ wpc[1] = "play"
    /\ queue # <<>>

\* C3: a worker that is running (its engine call does not stall) leads to a
\* state where it has finished and the semaphore is free; and whenever every
\* session so far went through its worker to the end, the semaphore is free,
\* so the next request is accepted.
C3_NoWedging ==
    /\ \A s \in Sessions :
          (wpc[s] \in WorkerRunning) ~> (wpc[s] = "stalled" \/ (wpc[s] = "finished" /\ sem = 1))
    /\ []((\A s \in 1..nsess : wpc[s] = "finished") => sem = 1)

C3_Witness ==
    /\ raised[1] /\ wpc[1] = "finished"
    /\ nsess = 2 /\ wpc[2] = "start" /\ rpc[2] = "get"

\* C4: every held period that has ended was released exactly once: the
\* counter is 0 or 1, and it is 1 when no acquisition is outstanding.
C4_ExactlyOnceRelease ==
    /\ sem \in {0, 1}
    /\ (\A s \in 1..nsess : wpc[s] \notin WorkerLive) => sem = 1

\* C5: a session never has two end markers on the queue's history; once its
\* worker has left the try/except (either path) it has exactly one; and every
\* chunk the session pushed comes before its marker.
C5_OneEndMarker ==
    \A s \in Sessions :
        /\ Markers(s) <= 1
        /\ wpc[s] \in {"finally", "finished"} => Markers(s) = 1
        /\ \A i, j \in DOMAIN pushed :
              (pushed[i] = NoneItem(s) /\ pushed[j].sid = s /\ i # j) => j < i

C5_Witness ==
    /\ raised[1] /\ wpc[1] = "finished" /\ nprod[1] = 1
    /\ ~raised[2] /\ wpc[2] = "finished" /\ nprod[2] = 1

\* C6: every item a session's generator pops was pushed by that session's
\* worker.
C6_SessionIsolation ==
    \A s \in Sessions : \A i \in DOMAIN got[s] : got[s][i].sid = s

\* C7: a session whose engine completed and whose generator ran to its end
\* (the client stayed connected) yielded header + c1 + ... + cn, or nothing
\* when n = 0.
C7_PerSessionBody ==
    \A s \in Sessions :
        (wpc[s] \in {"finally", "finished"} /\ ~raised[s] /\ rpc[s] = "finished")
        => out[s] = IF nprod[s] = 0 THEN <<>>
                    ELSE CreateWaveHeader(engineOK, infoOK) \o Produced(s)

\* C8: a generator yields the header at most once, before anything else, and
\* not at all when its session's engine ended having produced no chunk.
C8_HeaderFraming ==
    \A s \in Sessions :
        /\ Headers(s) <= 1
        /\ Headers(s) = 1 => out[s][1] = WavHeader
        /\ (wpc[s] \in {"complete", "except", "finally", "finished"} /\ nprod[s] = 0)
             => Headers(s) = 0

\* C9: when the engine raises after one chunk, the session's body is
\* header + c1 once its generator has ended, the semaphore is free once the
\* worker has finished, and the next session yields only its own chunks.
C9_MidSynthesisFailure ==
    \A s \in Sessions :
        (raised[s] /\ nprod[s] = 1) =>
            /\ rpc[s] = "finished"
                 => out[s] = CreateWaveHeader(engineOK, infoOK) \o Produced(s)
            /\ (wpc[s] = "finished" /\ nsess = s) => sem = 1
            /\ s + 1 \in Sessions =>
                 \A i \in DOMAIN out[s + 1] :
                    out[s + 1][i].kind = "chunk" => out[s + 1][i].sid = s + 1

\* C10: once a session's generator has stopped pulling, its running worker
\* still gets to the end (unless the engine stalls): it has pushed its end
\* marker and released the semaphore.
C10_DisconnectNoWedge ==
    \A s \in Sessions :
        (rpc[s] \in {"closed", "finished"} /\ wpc[s] \in WorkerRunning)
        ~> (wpc[s] = "stalled" \/ (wpc[s] = "finished" /\ Markers(s) = 1 /\ sem = 1))

C10_Witness ==
    /\ rpc[1] = "closed"
    /\ wpc[1] = "finished"
    /\ Len(queue) >= 2
    /\ sem = 1

\* C11: a request whose text is missing or empty is answered 400 in that
\* step, whatever the semaphore and the engine are, and the step changes
\* neither the semaphore nor the queue and starts or moves no worker or
\* generator.
C11_EmptyTextRejection ==
    [][(lastReq' # lastReq /\ lastReq'.text = "")
        => /\ lastReq'.status = "400"
           /\ UNCHANGED <<sem, queue, nsess, workerVars, genVars, pushed>>]_vars

C11_Witness ==
    /\ lastReq = [text |-> "", status |-> "400"]
    /\ sem = 0
    /\ wpc[1] = "play"
    /\ queue # <<>>

\* C12: when the engine or the stream was not initialized, every request
\* with non-empty text is answered 503 unavailable and changes nothing else,
\* and the semaphore stays free: no session, no worker, no generator and
\* nothing on the queue, ever.
C12_EngineUnavailable ==
    /\ [](~engineOK => /\ sem = 1
                       /\ nsess = 0
                       /\ pushed = <<>>
                       /\ \A s \in Sessions : wpc[s] = "none" /\ rpc[s] = "none")
    /\ [][(lastReq' # lastReq /\ lastReq'.text # "" /\ ~engineOK)
          => /\ lastReq'.status = "503_unavailable"
             /\ UNCHANGED <<sem, queue, nsess, workerVars, genVars, pushed>>]_vars

C12_Witness ==
    /\ ~engineOK
    /\ lastReq = [text |-> "hello", status |-> "503_unavailable"]
    /\ sem = 1

\* Positions of a generator that is still consuming: waiting in or about to
\* call queue.get(), or suspended at a yield.
Consuming == {"get", "yield_header", "yield_chunk"}

\* C13: at most one generator is consuming from the queue at any time.
C13_SingleConsumer ==
    Cardinality({s \in Sessions : rpc[s] \in Consuming}) <= 1

\* The responder's state as the specification names it.
RState(s) ==
    CASE rpc[s] = "none" -> "NotCreated"
      [] rpc[s] \in {"get", "yield_header"} -> "AwaitingHeader"
      [] rpc[s] = "yield_chunk" -> "StreamingChunks"
      [] OTHER -> "Closed"

\* The same, read in the next state.
RStateNext(s) ==
    CASE rpc'[s] = "none" -> "NotCreated"
      [] rpc'[s] \in {"get", "yield_header"} -> "AwaitingHeader"
      [] rpc'[s] = "yield_chunk" -> "StreamingChunks"
      [] OTHER -> "Closed"

\* C14: a responder moves only NotCreated -> AwaitingHeader ->
\* StreamingChunks -> Closed or AwaitingHeader -> Closed; a pop that returns
\* the end marker closes it and yields nothing (so an end marker on the
\* first pop leaves the body empty, without header); a closed responder
\* pops and yields nothing more.
C14_ResponderStateMachine ==
    [][\A s \in Sessions :
        /\ <<RState(s), RStateNext(s)>> \in
              {<<"NotCreated", "NotCreated">>, <<"NotCreated", "AwaitingHeader">>,
               <<"AwaitingHeader", "AwaitingHeader">>,
               <<"AwaitingHeader", "StreamingChunks">>,
               <<"AwaitingHeader", "Closed">>,
               <<"StreamingChunks", "StreamingChunks">>,
               <<"StreamingChunks", "Closed">>,
               <<"Closed", "Closed">>}
        /\ (got'[s] # got[s] /\ got'[s][Len(got'[s])].kind = "none")
             => (RStateNext(s) = "Closed" /\ out'[s] = out[s])
        /\ (got'[s] # got[s] /\ got'[s][Len(got'[s])].kind = "chunk")
             => (RStateNext(s) # "Closed" /\ out'[s] # out[s])
        /\ RState(s) = "Closed"
             => (got'[s] = got[s] /\ out'[s] = out[s] /\ rpc'[s] = rpc[s])
      ]_vars

C14_Witness ==
    /\ rpc[1] = "finished" /\ got[1] = <<NoneItem(1)>> /\ out[1] = <<>>
    /\ rpc[2] = "finished" /\ Len(got[2]) = 3 /\ Len(out[2]) = 3

\* Position of an item in the history of pushes (items are distinct).
Idx(item) == CHOOSE i \in DOMAIN pushed : pushed[i] = item
Count(seq, item) == Len(SelectSeq(seq, LAMBDA x : x = item))
RECURSIVE SumLen(_, _)
SumLen(f, n) == IF n = 0 THEN 0 ELSE Len(f[n]) + SumLen(f, n - 1)
PushedChunks == {pushed[i] : i \in {j \in DOMAIN pushed : pushed[j].kind = "chunk"}}
Emitted(item) == \E s \in Sessions : Count(out[s], item) > 0
AnyClosed == \E s \in Sessions : rpc[s] = "closed"
AnyStalled == \E s \in Sessions : wpc[s] = "stalled"

\* The queue is first-in first-out over all generators: what is still queued
\* is the tail of what was pushed, everything before it was popped by
\* exactly one generator, each generator popped in push order, and no chunk
\* was yielded twice.
FifoOnce ==
    /\ Len(queue) <= Len(pushed)
    /\ queue = SubSeq(pushed, Len(pushed) - Len(queue) + 1, Len(pushed))
    /\ SumLen(got, MaxSessions) + Len(queue) = Len(pushed)
    /\ \A s \in Sessions : \A i, j \in DOMAIN got[s] :
          i < j => Idx(got[s][i]) < Idx(got[s][j])
    /\ \A s, t \in Sessions : \A i \in DOMAIN got[s], j \in DOMAIN got[t] :
          (got[s][i] = got[t][j]) => (s = t /\ i = j)
    /\ \A c \in PushedChunks :
          SumLen([s \in Sessions |-> SelectSeq(out[s], LAMBDA x : x = c)], MaxSessions) <= 1

\* C15: every pushed chunk is popped at most once and in push order, and,
\* unless a client disconnects, every pushed chunk is eventually yielded by
\* some generator (exactly once, by the first part).
C15_ChunkConservation ==
    /\ []FifoOnce
    /\ []<>((\A c \in PushedChunks : Emitted(c)) \/ AnyClosed)

C15_Witness ==
    /\ Len(pushed) = 4
    /\ queue = <<>>
    /\ ~AnyClosed
    /\ \A c \in PushedChunks : Emitted(c)
    /\ \E i \in DOMAIN out[2] : out[2][i].sid = 1

\* C16: unless an engine call stalls or a client disconnects, every
\* generator that is consuming eventually pops an end marker and finishes.
C16_ResponderTermination ==
    \A s \in Sessions :
        (rpc[s] \in Consuming) ~>
            (\/ rpc[s] = "finished" /\ got[s][Len(got[s])].kind = "none"
             \/ AnyClosed
             \/ AnyStalled)

C16_Witness ==
    /\ rpc[1] = "finished" /\ rpc[2] = "finished"
    /\ got[2][Len(got[2])] = NoneItem(1)
    /\ got[1][Len(got[1])] = NoneItem(2)

\* C17: when create_wave_header_for_engine returns b"", a generator yields
\* no header and exactly the chunks it popped, in pop order, and header_sent
\* is set with the first chunk, so the header is not built again.
C17_EmptyHeaderSkipped ==
    ~infoOK =>
        \A s \in Sessions :
            /\ Headers(s) = 0
            /\ header[s] = <<>>
            /\ rpc[s] # "yield_header"
            /\ out[s] = SelectSeq(got[s], LAMBDA x : x.kind = "chunk")
            /\ header_sent[s] <=> out[s] # <<>>

C17_Witness ==
    /\ ~infoOK
    /\ rpc[1] = "finished"
    /\ out[1] = <<ChunkItem(1, 1), ChunkItem(1, 2)>>
    /\ header_sent[1]

\* C18: a chunk a session's worker pushed is yielded by that session's
\* generator: no other session's generator yields it, and the session's
\* generator does not finish without having yielded it.
C18_IncrementalStreaming ==
    \A s \in Sessions : \A k \in 1..nprod[s] :
        /\ \A t \in Sessions \ {s} : Count(out[t], ChunkItem(s, k)) = 0
        /\ rpc[s] = "finished" => Count(out[s], ChunkItem(s, k)) = 1

\* C19: a worker that has released has queued its end marker; while the
\* semaphore is free no worker exists; and no step taken with the semaphore
\* free puts anything on the queue.
C19_MarkerBeforeRelease ==
    /\ [](\A s \in Sessions : wpc[s] = "finished" => Markers(s) = 1)
    /\ [](sem >= 1 => \A s \in Sessions : wpc[s] \notin WorkerLive)
    /\ [][sem >= 1 => pushed' = pushed]_vars

C19_Witness ==
    /\ wpc[1] = "finished" /\ ~raised[1] /\ nprod[1] = 1
    /\ wpc[2] = "finished" /\ raised[2] /\ nprod[2] = 1
    /\ sem = 1
    /\ Len(pushed) = 4

====
